---- MODULE Spec2Model ----
(***************************************************************************)
(* Model of backup/scripts/backup_service.py: the backup daemon's startup, *)
(* its run_backup() attempt and the periodic loop of main().               *)
(* Time is counted in seconds.  Environment values are sequences of        *)
(* one-character strings so that int() is modelled by parsing.             *)
(***************************************************************************)
EXTENDS Integers, Sequences, FiniteSets, TLC

(* ---- bounds of the exploration ---- *)
MaxAttempts == 3
MaxFaults == 2

(* ---- program constants ---- *)
EXECUTION_TIMEOUT == 300
CRASH_BACKOFF == 60
SECONDS_PER_HOUR == 3600
DEFAULT_INTERVAL == <<"2", "4">>

VARIABLES env, logDirExists, pc, exitCode, termCause,
          backup_interval_hours, backup_interval_seconds,
          attempts, sleepsCompleted, faults, faultRun, backoffs,
          executors, lastOutcome, lastResult, lastDuration, sinceEnd,
          returncode, sinceStart,
          interrupted, interruptedAt, logTail

vars == <<env, logDirExists, pc, exitCode, termCause,
          backup_interval_hours, backup_interval_seconds,
          attempts, sleepsCompleted, faults, faultRun, backoffs,
          executors, lastOutcome, lastResult, lastDuration, sinceEnd,
          returncode, sinceStart,
          interrupted, interruptedAt, logTail>>

(* ---- the environment ---- *)
Unset == [present |-> FALSE, value |-> <<>>]
Val(s) == [present |-> TRUE, value |-> s]

RequiredValues == {Unset, Val(<<>>), Val(<<"p">>)}
IntervalValues == {Unset, Val(<<>>), Val(<<"a">>), Val(<<"1", ".", "5">>),
                   Val(<<"0">>), Val(<<"-", "1">>), Val(<<"1">>),
                   Val(<<" ", "2">>)}

required_vars == <<"GOOGLE_CLOUD_PROJECT", "GOOGLE_CLOUD_STORAGE_BUCKET">>

(* os.getenv(name): None (here Unset) when the variable is not set *)
Getenv(e, name) == e[name]
(* os.getenv(name, default) *)
GetenvDefault(e, name, default) ==
    IF e[name].present THEN e[name].value ELSE default
(* truth value of os.getenv(var): None and '' are both false *)
IsSet(v) == v.present
Truthy(v) == v.present /\ Len(v.value) > 0

(* [var for var in required_vars if not os.getenv(var)] *)
MissingFirstOnly(e) ==
    SelectSeq(SubSeq(required_vars, 1, 1), LAMBDA v : ~Truthy(Getenv(e, v)))
missing_vars(e) ==
    SelectSeq(required_vars, LAMBDA v : ~Truthy(Getenv(e, v)))

(* ---- int(str) ---- *)
Digits == <<"0", "1", "2", "3", "4", "5", "6", "7", "8", "9">>
IsDigit(c) == \E i \in 1..10 : Digits[i] = c
DigitVal(c) == (CHOOSE i \in 1..10 : Digits[i] = c) - 1
IsSpace(c) == c \in {" ", "\t", "\n"}

RECURSIVE LStrip(_)
LStrip(s) == IF s # <<>> /\ IsSpace(Head(s)) THEN LStrip(Tail(s)) ELSE s
RECURSIVE RStrip(_)
RStrip(s) == IF s # <<>> /\ IsSpace(s[Len(s)])
             THEN RStrip(SubSeq(s, 1, Len(s) - 1)) ELSE s
Strip(s) == RStrip(LStrip(s))

RECURSIVE DigitsValue(_, _)
DigitsValue(s, acc) ==
    IF s = <<>> THEN acc ELSE DigitsValue(Tail(s), 10 * acc + DigitVal(Head(s)))

(* int(s): surrounding whitespace is dropped, one optional sign, then at   *)
(* least one decimal digit and nothing else; anything else is ValueError.  *)
PyInt(s) ==
    LET t == Strip(s)
        signed == t # <<>> /\ Head(t) \in {"+", "-"}
        body == IF signed THEN Tail(t) ELSE t
        ok == body # <<>> /\ \A i \in 1..Len(body) : IsDigit(body[i])
    IN IF ~ok THEN [ok |-> FALSE, val |-> 0]
       ELSE [ok |-> TRUE,
             val |-> IF signed /\ Head(t) = "-" THEN 0 - DigitsValue(body, 0)
                     ELSE DigitsValue(body, 0)]

(* backup_interval_hours * 3600 *)
IntervalSeconds(hours) == hours * SECONDS_PER_HOUR

(* ---- logging ---- *)
AlwaysInfo(level, msg) == [level |-> "INFO", msg |-> msg]
L(level, msg) == [level |-> level, msg |-> msg]


Outcomes == {"Success", "Failure", "TimedOut", "UnexpectedError"}
(* exit codes of backup.sh and how long a run that returns in time takes *)
ExitCodes == {0, 2}
Durations == {5, 299}

StartupPcs == {"Import", "CheckEnv", "Configure"}
WaitPcs == {"InitialWait", "ScheduledWait"}
(* positions inside the try block of the main loop, lines 87-96 *)
TryOnlySleep == {"LoopTop", "Sleeping"}
TryPcs == {"LoopTop", "Sleeping", "ScheduledRun", "ScheduledWait"}

Init ==
    /\ env \in {[GOOGLE_CLOUD_PROJECT |-> p, GOOGLE_CLOUD_STORAGE_BUCKET |-> b,
                 BACKUP_INTERVAL_HOURS |-> i] :
                   p \in RequiredValues, b \in RequiredValues, i \in IntervalValues}
    /\ logDirExists \in BOOLEAN
    /\ pc = "Import"
    /\ exitCode = -1
    /\ termCause = "none"
    /\ backup_interval_hours = 0
    /\ backup_interval_seconds = 0
    /\ attempts = 0
    /\ sleepsCompleted = 0
    /\ faults = 0
    /\ faultRun = 0
    /\ backoffs = 0
    /\ executors = 0
    /\ lastOutcome = "None"
    /\ lastResult = FALSE
    /\ lastDuration = 0
    /\ sinceEnd = 0
    /\ returncode = -1
    /\ sinceStart = 0
    /\ interrupted = FALSE
    /\ interruptedAt = "None"
    /\ logTail = <<>>

(* the process ends: sys.exit, an uncaught exception, or main() returning *)
Terminate(code, cause) ==
    /\ pc' = "Terminated"
    /\ exitCode' = code
    /\ termCause' = cause

(* module level, lines 16-25: FileHandler opens /app/logs/backup_service.log *)
(* when the module is loaded; a missing directory is FileNotFoundError.      *)
ConfigureLogging ==
    /\ pc = "Import"
    /\ IF logDirExists
       THEN /\ pc' = "CheckEnv"
            /\ UNCHANGED <<exitCode, termCause>>
       ELSE Terminate(1, "log_dir")
    /\ logTail' = <<>>
    /\ UNCHANGED <<env, logDirExists, backup_interval_hours, backup_interval_seconds,
                   attempts, sleepsCompleted, faults, faultRun, backoffs, executors,
                   lastOutcome, lastResult, lastDuration, sinceEnd,
                   returncode, sinceStart, interrupted, interruptedAt>>

(* main, lines 59-70 *)
CheckRequiredVars ==
    /\ pc = "CheckEnv"
    /\ IF missing_vars(env) # <<>>
       THEN /\ Terminate(1, "missing_env")
            /\ logTail' = <<L("INFO", "Starting Auto-Apply backup service..."),
                            L("ERROR", "Missing required environment variables")>>
       ELSE /\ pc' = "Configure"
            /\ logTail' = <<L("INFO", "Starting Auto-Apply backup service...")>>
            /\ UNCHANGED <<exitCode, termCause>>
    /\ UNCHANGED <<env, logDirExists, backup_interval_hours, backup_interval_seconds,
                   attempts, sleepsCompleted, faults, faultRun, backoffs, executors,
                   lastOutcome, lastResult, lastDuration, sinceEnd,
                   returncode, sinceStart, interrupted, interruptedAt>>

(* where main goes once the interval is resolved: the initial run, line 83 *)
SkipInitialRun == "LoopTop"
AfterStartupPc == "InitialRun"

(* main, lines 72-79: mkdir, then int(os.getenv('BACKUP_INTERVAL_HOURS', '24')); *)
(* the ValueError of int() is not handled.                                      *)
ResolveInterval ==
    /\ pc = "Configure"
    /\ logDirExists' = TRUE
    /\ LET parsed == PyInt(GetenvDefault(env, "BACKUP_INTERVAL_HOURS", DEFAULT_INTERVAL))
       IN IF parsed.ok
          THEN /\ backup_interval_hours' = parsed.val
               /\ backup_interval_seconds' = IntervalSeconds(parsed.val)
               /\ pc' = AfterStartupPc
               /\ logTail' = <<L("INFO", "Backup service configured")>>
               /\ UNCHANGED <<exitCode, termCause>>
          ELSE /\ Terminate(1, "bad_interval")
               /\ logTail' = <<>>
               /\ UNCHANGED <<backup_interval_hours, backup_interval_seconds>>
    /\ UNCHANGED <<env, attempts, sleepsCompleted, faults, faultRun, backoffs, executors,
                   lastOutcome, lastResult, lastDuration, sinceEnd,
                   returncode, sinceStart, interrupted, interruptedAt>>

(* where control goes when run_backup() has returned: line 83 falls into the *)
(* loop, lines 93-96 go round it, whatever the result.                       *)
ExitOnFailure(result) == IF result THEN "LoopTop" ELSE "Terminated"
AfterAttemptPc(result) == "LoopTop"

(* the except Exception handler of the loop, lines 101-103 *)
HandlerReraises == "Terminated"
HandlerPc == "CrashBackoff"

(* run_backup() has classified the attempt and returns to main.  kind is     *)
(* "Initial" (line 83, result dropped) or "Scheduled" (lines 93-96); raised  *)
(* is an exception in lines 93-96 after the return, caught at line 101.      *)
ReturnToMain(kind, outcome, result, duration, lines, raised) ==
    /\ attempts' = attempts + 1
    /\ lastOutcome' = outcome
    /\ lastResult' = result
    /\ lastDuration' = duration
    /\ sinceEnd' = 0
    /\ sinceStart' = duration
    /\ IF kind = "Initial"
       THEN /\ pc' = AfterAttemptPc(result)
            /\ logTail' = lines
            /\ UNCHANGED <<faults, faultRun>>
       ELSE IF raised
            THEN /\ pc' = HandlerPc
                 /\ faults' = faults + 1
                 /\ faultRun' = faultRun + 1
                 /\ logTail' = lines \o <<L("ERROR", "Unexpected error in backup service")>>
            ELSE /\ pc' = AfterAttemptPc(result)
                 /\ faultRun' = 0
                 /\ logTail' = IF result THEN lines
                               ELSE lines \o <<L("WARNING", "Backup failed, will retry at next interval")>>
                 /\ UNCHANGED faults
    /\ UNCHANGED <<exitCode, termCause>>

KindOf(p) == IF p \in {"InitialRun", "InitialWait"} THEN "Initial" ELSE "Scheduled"
MayRaise(kind) == IF kind = "Scheduled" /\ faults < MaxFaults THEN BOOLEAN ELSE {FALSE}

(* run_backup, lines 29-38 up to the start of backup.sh; a failure to start *)
(* it (OSError) is caught at line 51.                                        *)
StartAttempt ==
    /\ pc \in {"InitialRun", "ScheduledRun"}
    /\ attempts < MaxAttempts
    /\ LET kind == KindOf(pc)
           head == IF kind = "Initial" THEN <<L("INFO", "Running initial backup...")>> ELSE <<>>
           lines == head \o <<L("INFO", "Starting scheduled backup...")>>
       IN \/ /\ executors' = executors + 1
             /\ pc' = IF kind = "Initial" THEN "InitialWait" ELSE "ScheduledWait"
             /\ logTail' = lines
             /\ sinceStart' = 0
             /\ UNCHANGED <<exitCode, termCause, attempts, faults, faultRun,
                            lastOutcome, lastResult, lastDuration, sinceEnd,
                            returncode>>
          \/ /\ \E raised \in MayRaise(kind) :
                  ReturnToMain(kind, "UnexpectedError", FALSE, 0,
                      lines \o <<L("ERROR", "Unexpected error during backup")>>, raised)
             /\ returncode' = -1
             /\ UNCHANGED executors
    /\ UNCHANGED <<env, logDirExists, backup_interval_hours, backup_interval_seconds,
                   sleepsCompleted, backoffs, interrupted, interruptedAt>>

(* subprocess.run: the child is gone when run returns or raises; on a       *)
(* timeout or any other exception it is killed and reaped first.            *)
ChildLeftRunning(n) == n
ExecutorsAfterRun(n) == n - 1

(* run_backup, lines 40-46 and 55: backup.sh exits within the timeout *)
ExecutorExits ==
    /\ pc \in WaitPcs
    /\ \E code \in ExitCodes, d \in Durations, raised \in MayRaise(KindOf(pc)) :
        /\ returncode' = code
        /\ IF code = 0
           THEN ReturnToMain(KindOf(pc), "Success", TRUE, d,
                    <<L("INFO", "Backup completed successfully"),
                      L("INFO", "Backup output")>>, raised)
           ELSE ReturnToMain(KindOf(pc), "Failure", FALSE, d,
                    <<L("ERROR", "Backup failed with return code"),
                      L("ERROR", "Backup error")>>, raised)
    /\ executors' = ExecutorsAfterRun(executors)
    /\ UNCHANGED <<env, logDirExists, backup_interval_hours, backup_interval_seconds,
                   sleepsCompleted, backoffs, interrupted, interruptedAt>>

(* what run_backup returns from the TimeoutExpired handler, line 50 *)
TimeoutFallsThrough == TRUE
TimedOutResult == FALSE

(* run_backup, lines 37 and 48-50: backup.sh is still running after 300 s *)
ExecutorTimesOut ==
    /\ pc \in WaitPcs
    /\ \E raised \in MayRaise(KindOf(pc)) :
          ReturnToMain(KindOf(pc), "TimedOut", TimedOutResult, EXECUTION_TIMEOUT,
              <<L("ERROR", "Backup timed out after 5 minutes")>>, raised)
    /\ returncode' = -1
    /\ executors' = ExecutorsAfterRun(executors)
    /\ UNCHANGED <<env, logDirExists, backup_interval_hours, backup_interval_seconds,
                   sleepsCompleted, backoffs, interrupted, interruptedAt>>

(* run_backup, lines 51-53: an exception while waiting for backup.sh or     *)
(* decoding its output                                                       *)
WaitRaises ==
    /\ pc \in WaitPcs
    /\ \E d \in Durations, raised \in MayRaise(KindOf(pc)) :
          ReturnToMain(KindOf(pc), "UnexpectedError", FALSE, d,
              <<L("ERROR", "Unexpected error during backup")>>, raised)
    /\ returncode' = -1
    /\ executors' = ExecutorsAfterRun(executors)
    /\ UNCHANGED <<env, logDirExists, backup_interval_hours, backup_interval_seconds,
                   sleepsCompleted, backoffs, interrupted, interruptedAt>>

(* the argument of time.sleep at line 90 *)
SleepRemainder == backup_interval_seconds - sinceEnd
SleepUntilNextStart == backup_interval_seconds - lastDuration
RetrySoonerOnFailure == IF lastResult THEN backup_interval_seconds ELSE CRASH_BACKOFF
SleepArg == backup_interval_seconds

(* main, lines 89-90 up to the point where time.sleep blocks: a negative    *)
(* argument is ValueError, any exception goes to the handler at line 101.   *)
BeginSleep ==
    /\ pc = "LoopTop"
    /\ \E raised \in BOOLEAN :
         /\ SleepArg < 0 => raised
         /\ IF raised
            THEN /\ faults < MaxFaults
                 /\ pc' = HandlerPc
                 /\ faults' = faults + 1
                 /\ faultRun' = faultRun + 1
                 /\ logTail' = <<L("INFO", "Sleeping until next backup..."),
                                 L("ERROR", "Unexpected error in backup service")>>
            ELSE /\ pc' = "Sleeping"
                 /\ logTail' = <<L("INFO", "Sleeping until next backup...")>>
                 /\ UNCHANGED <<faults, faultRun>>
    /\ UNCHANGED <<exitCode, termCause>>
    /\ UNCHANGED <<env, logDirExists, backup_interval_hours, backup_interval_seconds,
                   attempts, sleepsCompleted, backoffs, executors,
                   lastOutcome, lastResult, lastDuration, sinceEnd,
                   returncode, sinceStart, interrupted, interruptedAt>>

(* main, line 90 returns and line 93 is reached *)
IntervalElapsed ==
    /\ pc = "Sleeping"
    /\ sinceEnd' = sinceEnd + SleepArg
    /\ sinceStart' = sinceStart + SleepArg
    /\ sleepsCompleted' = sleepsCompleted + 1
    /\ pc' = "ScheduledRun"
    /\ logTail' = <<>>
    /\ UNCHANGED <<env, logDirExists, exitCode, termCause,
                   backup_interval_hours, backup_interval_seconds,
                   attempts, faults, faultRun, backoffs, executors,
                   lastOutcome, lastResult, lastDuration, returncode,
                   interrupted, interruptedAt>>

(* the argument of time.sleep at line 103 *)
BackoffGrows == CRASH_BACKOFF * faultRun
BackoffArg == CRASH_BACKOFF

(* main, line 103 returns and the while loop starts over *)
BackoffElapsed ==
    /\ pc = "CrashBackoff"
    /\ sinceEnd' = sinceEnd + BackoffArg
    /\ sinceStart' = sinceStart + BackoffArg
    /\ backoffs' = backoffs + 1
    /\ pc' = "LoopTop"
    /\ logTail' = <<>>
    /\ UNCHANGED <<env, logDirExists, exitCode, termCause,
                   backup_interval_hours, backup_interval_seconds,
                   attempts, sleepsCompleted, faults, faultRun, executors,
                   lastOutcome, lastResult, lastDuration, returncode,
                   interrupted, interruptedAt>>

(* the positions at which KeyboardInterrupt is caught by line 98 *)
CaughtPcs == TryPcs

(* SIGINT: KeyboardInterrupt is raised at the current position.  run_backup *)
(* does not catch it (it is not an Exception); subprocess.run kills the     *)
(* child on its way out.  Inside the try block of the loop it is caught at  *)
(* line 98 and main returns; anywhere else (start-up, the initial run, the  *)
(* sleep of the handler at line 103) it is uncaught and ends the process    *)
(* with the status of a SIGINT death.                                       *)
Interrupt ==
    /\ pc # "Terminated"
    /\ ~interrupted
    /\ interrupted' = TRUE
    /\ interruptedAt' = pc
    /\ executors' = IF pc \in WaitPcs THEN ExecutorsAfterRun(executors) ELSE executors
    /\ IF pc \in CaughtPcs
       THEN /\ Terminate(0, "interrupt")
            /\ logTail' = <<L("INFO", "Backup service stopped by user")>>
       ELSE /\ Terminate(128 + 2, "interrupt")
            /\ logTail' = <<>>
    /\ UNCHANGED <<env, logDirExists, backup_interval_hours, backup_interval_seconds,
                   attempts, sleepsCompleted, faults, faultRun, backoffs,
                   lastOutcome, lastResult, lastDuration, sinceEnd,
                   returncode, sinceStart>>

ProgramStep ==
    \/ ConfigureLogging
    \/ CheckRequiredVars
    \/ ResolveInterval
    \/ StartAttempt
    \/ ExecutorExits
    \/ ExecutorTimesOut
    \/ WaitRaises
    \/ BeginSleep
    \/ IntervalElapsed
    \/ BackoffElapsed

Next ==
    \/ ConfigureLogging
    \/ CheckRequiredVars
    \/ ResolveInterval
    \/ StartAttempt
    \/ ExecutorExits
    \/ ExecutorTimesOut
    \/ WaitRaises
    \/ BeginSleep
    \/ IntervalElapsed
    \/ BackoffElapsed
    \/ Interrupt

Spec == Init /\ [][Next]_vars

(* the interpreter keeps running the single thread of the program *)
FairSpec == Spec /\ WF_vars(ProgramStep)


(***************************************************************************)
(* Properties                                                              *)
(***************************************************************************)
RequiredNames == {"GOOGLE_CLOUD_PROJECT", "GOOGLE_CLOUD_STORAGE_BUCKET"}
RequiredUnset == \E n \in RequiredNames : ~env[n].present
LoopPcs == {"LoopTop", "Sleeping", "ScheduledRun", "ScheduledWait", "CrashBackoff"}
ShutdownLine == L("INFO", "Backup service stopped by user")

(* C1: when GOOGLE_CLOUD_PROJECT or GOOGLE_CLOUD_STORAGE_BUCKET is not set, *)
(* no attempt is ever executed or started whatever the interval value and   *)
(* the log directory are, the process never gets past the check, it ends    *)
(* with exit code 1 unless a SIGINT ended it first, and it does end.        *)
C1_MissingEnvExits1 ==
    /\ [](RequiredUnset =>
            /\ attempts = 0
            /\ executors = 0
            /\ pc \in {"Import", "CheckEnv", "Terminated"}
            /\ (pc = "Terminated" /\ ~interrupted => exitCode = 1))
    /\ (RequiredUnset ~> pc = "Terminated")

C1_Witness ==
    /\ ~env["GOOGLE_CLOUD_STORAGE_BUCKET"].present
    /\ env["GOOGLE_CLOUD_PROJECT"] = Val(<<"p">>)
    /\ env["BACKUP_INTERVAL_HOURS"] = Val(<<"1">>)
    /\ pc = "Terminated"
    /\ termCause = "missing_env"
    /\ exitCode = 1
    /\ attempts = 0

(* C2: as long as no loop fault and no interrupt has happened, one attempt  *)
(* has been executed when an interval sleep begins for the first time, and  *)
(* with N interval sleeps completed 1 + N attempts have been executed once  *)
(* the N-th scheduled attempt is over (N while it is still to finish).      *)
C2_OnePlusN ==
    (faults = 0 /\ ~interrupted) =>
        /\ pc \in {"InitialRun", "InitialWait"} => attempts = 0 /\ sleepsCompleted = 0
        /\ pc \in {"LoopTop", "Sleeping"} => attempts = 1 + sleepsCompleted
        /\ pc \in {"ScheduledRun", "ScheduledWait"} =>
              sleepsCompleted >= 1 /\ attempts = sleepsCompleted

C2_Witness ==
    /\ pc = "Sleeping"
    /\ sleepsCompleted = 2
    /\ attempts = 3
    /\ faults = 0
    /\ ~interrupted

(* C3: whatever the outcome of the previous attempt, when no loop fault has *)
(* happened since, the time slept between its end and the start of the     *)
(* next attempt is exactly backup_interval_hours * 3600 seconds, and while  *)
(* the loop sleeps or is about to, every outcome is possible.               *)
C3_DelayIgnoresOutcome ==
    \A o \in Outcomes :
       (lastOutcome = o /\ faultRun = 0) =>
           /\ pc = "ScheduledRun" => sinceEnd = backup_interval_hours * 3600
           /\ pc = "ScheduledWait" => sinceEnd = backup_interval_hours * 3600
           /\ pc \in {"LoopTop", "Sleeping"} => sinceEnd = 0

C3_Witness ==
    /\ pc = "ScheduledRun"
    /\ lastOutcome = "Failure"
    /\ faultRun = 0
    /\ faults = 0
    /\ backup_interval_hours = 2
    /\ sinceEnd = 7200

(* C4 as stated: the process is only ever terminated by a missing required  *)
(* setting or by an interrupt.                                              *)
C4_OnlyMissingEnvOrInterrupt ==
    pc = "Terminated" => termCause \in {"missing_env", "interrupt"}

(* C4 as amended: the process ends only during start-up (a required         *)
(* variable missing, BACKUP_INTERVAL_HOURS not an integer, the log file not *)
(* openable) or by an interrupt; no attempt outcome and no loop fault ends  *)
(* it.                                                                      *)
C4_TerminatedOnlyStartupOrInterrupt ==
    /\ [][(pc # "Terminated" /\ pc' = "Terminated") =>
             \/ pc \in StartupPcs
             \/ (~interrupted /\ interrupted')]_vars
    /\ [](pc = "Terminated" =>
             termCause \in {"missing_env", "bad_interval", "log_dir", "interrupt"})

C4_Witness ==
    /\ pc = "LoopTop"
    /\ attempts = 3
    /\ lastOutcome = "TimedOut"
    /\ faults = 2
    /\ ~interrupted

(* C5: every loop fault is followed by one sleep of 60 seconds that leads   *)
(* back to the top of the loop, and after any number of faults in a row the *)
(* process has not terminated unless it was interrupted.                    *)
C5_FaultsBackOffAndSurvive ==
    /\ [](faultRun >= 1 /\ ~interrupted => pc \in LoopPcs)
    /\ [](pc = "CrashBackoff" => faults = backoffs + 1)
    /\ [](pc \in LoopPcs \ {"CrashBackoff"} => faults = backoffs)
    /\ [][faults' # faults => faults' = faults + 1 /\ pc' = "CrashBackoff"]_vars
    /\ [][(pc = "CrashBackoff" /\ pc' # pc /\ ~interrupted') =>
             /\ pc' = "LoopTop"
             /\ sinceEnd' = sinceEnd + 60
             /\ backoffs' = backoffs + 1]_vars

C5_Witness ==
    /\ pc = "LoopTop"
    /\ faultRun = 2
    /\ backoffs = 2
    /\ ~interrupted

(* C6: an attempt that lasted the full 300 seconds is TimedOut, and a       *)
(* TimedOut attempt returned False, logged the timeout at ERROR first, and  *)
(* left no executor process behind; no executor runs outside the wait.      *)
C6_TimeoutKillsAndLogs ==
    /\ [][attempts' = attempts + 1 =>
            /\ (lastDuration' >= 300 <=> lastOutcome' = "TimedOut")
            /\ lastOutcome' = "TimedOut" =>
                 /\ lastResult' = FALSE
                 /\ executors' = 0
                 /\ Len(logTail') >= 1
                 /\ logTail'[1] = L("ERROR", "Backup timed out after 5 minutes")]_vars
    /\ [](pc \notin WaitPcs => executors = 0)

C6_Witness ==
    /\ lastOutcome = "TimedOut"
    /\ lastDuration = 300
    /\ pc = "Sleeping"
    /\ executors = 0
    /\ attempts = 2

(* C7: there is never more than one executor process, one exists exactly    *)
(* while run_backup waits, and an attempt starts only with none running.    *)
C7_AtMostOneAttempt ==
    /\ executors \in {0, 1}
    /\ pc \in WaitPcs => executors = 1
    /\ pc \in {"InitialRun", "ScheduledRun"} => executors = 0

C7_Witness ==
    /\ pc = "ScheduledWait"
    /\ executors = 1
    /\ attempts = 2
    /\ lastOutcome = "TimedOut"

(* C8: a SIGINT during the interval sleep or during a scheduled attempt     *)
(* ends the process in that very step with exit code 0 and the shutdown     *)
(* line logged, the executor gone, and nothing happens afterwards.          *)
C8_InterruptInLoopStopsCleanly ==
    /\ [][(~interrupted /\ interrupted' /\ pc \in {"Sleeping", "ScheduledWait"}) =>
            /\ pc' = "Terminated"
            /\ exitCode' = 0
            /\ logTail' = <<ShutdownLine>>
            /\ executors' = 0
            /\ attempts' = attempts
            /\ sleepsCompleted' = sleepsCompleted]_vars
    /\ [][interrupted => pc = "Terminated" /\ UNCHANGED <<attempts, executors, pc>>]_vars

C8_Witness ==
    /\ pc = "Terminated"
    /\ interruptedAt = "ScheduledWait"
    /\ exitCode = 0
    /\ logTail = <<ShutdownLine>>

(* C9: a SIGINT during the wait of any attempt or during any sleep ends the *)
(* process with exit code 0 and the shutdown line logged.                   *)
C9_InterruptCleanEverywhere ==
    (pc = "Terminated" /\
     interruptedAt \in {"InitialWait", "ScheduledWait", "Sleeping", "CrashBackoff"}) =>
        /\ exitCode = 0
        /\ logTail = <<ShutdownLine>>

(* BACKUP_INTERVAL_HOURS is set to something that is not a positive integer *)
IntervalInvalid ==
    /\ env["BACKUP_INTERVAL_HOURS"].present
    /\ LET parsed == PyInt(env["BACKUP_INTERVAL_HOURS"].value)
       IN ~parsed.ok \/ parsed.val <= 0

(* C10: with BACKUP_INTERVAL_HOURS set to a non-integer or a non-positive   *)
(* value no attempt is executed or started and the loop is never entered.   *)
C10_InvalidIntervalFailsFast ==
    IntervalInvalid =>
        /\ attempts = 0
        /\ executors = 0
        /\ pc \in StartupPcs \cup {"Terminated"}

(* C11 as stated: when the process ends without having been interrupted,    *)
(* it ends with code 1 and because a required variable is missing.          *)
C11_SelfExitOnlyMissingEnv ==
    (pc = "Terminated" /\ ~interrupted) =>
        /\ exitCode = 1
        /\ termCause = "missing_env"

(* C11 as amended: the process ends on its own only with code 1, only       *)
(* before any attempt, and only for one of the three start-up failures (a   *)
(* required variable missing, BACKUP_INTERVAL_HOURS not an integer, the log *)
(* file not openable); once start-up is over only an interrupt ends it.     *)
C11_SelfExitOnlyAtStartupWithCode1 ==
    /\ (pc = "Terminated" /\ ~interrupted) =>
          /\ exitCode = 1
          /\ termCause \in {"missing_env", "bad_interval", "log_dir"}
          /\ attempts = 0
          /\ sleepsCompleted = 0
          /\ faults = 0
    /\ (pc = "Terminated" /\ interrupted) => exitCode \in {0, 130}
    /\ (pc = "Terminated" /\ (attempts > 0 \/ faults > 0)) => interrupted

C11_Witness ==
    /\ pc = "Terminated"
    /\ ~interrupted
    /\ termCause = "bad_interval"
    /\ exitCode = 1
    /\ env["GOOGLE_CLOUD_PROJECT"] = Val(<<"p">>)
    /\ env["GOOGLE_CLOUD_STORAGE_BUCKET"] = Val(<<"p">>)

(* C12: when run_backup returns, an executor exit code of 0 is Success and  *)
(* True, a nonzero exit code is Failure and False, no exit code at all      *)
(* (failure to launch, exception while waiting, timeout) is False and       *)
(* UnexpectedError unless it is the timeout; so True iff exit code 0.       *)
C12_ResultIffExitZero ==
    /\ [][attempts' = attempts + 1 =>
            /\ lastResult' <=> returncode' = 0
            /\ returncode' = 0 => lastOutcome' = "Success"
            /\ returncode' > 0 => lastOutcome' = "Failure"
            /\ returncode' < 0 => lastOutcome' \in {"UnexpectedError", "TimedOut"}
            /\ lastOutcome' = "UnexpectedError" => returncode' < 0 /\ ~lastResult'
            /\ lastOutcome' = "Success" => returncode' = 0]_vars
    /\ [](attempts > 0 => (lastResult <=> (returncode = 0 /\ lastOutcome = "Success")))

C12_Witness ==
    /\ pc = "LoopTop"
    /\ attempts = 1
    /\ lastOutcome = "Failure"
    /\ returncode = 2
    /\ ~lastResult

AttemptPcs == {"InitialRun", "InitialWait", "ScheduledRun", "ScheduledWait"}
RetryLine == L("WARNING", "Backup failed, will retry at next interval")

(* C13: every step that ends an attempt without an interrupt is a return of *)
(* run_backup: an outcome is recorded and logged, a failed one at ERROR     *)
(* with result False, and main goes on after the call: the initial run      *)
(* falls into the loop, a scheduled run logs its warning and goes round     *)
(* the loop, and the process is never ended by it.                          *)
C13_FailureNeverRaisesPastRunBackup ==
    [][(pc \in AttemptPcs /\ pc' \notin AttemptPcs /\ ~interrupted') =>
         /\ attempts' = attempts + 1
         /\ lastOutcome' \in Outcomes
         /\ lastResult' <=> lastOutcome' = "Success"
         /\ ~lastResult' => \E i \in 1..Len(logTail') : logTail'[i].level = "ERROR"
         /\ pc \in {"InitialRun", "InitialWait"} => pc' = "LoopTop" /\ faults' = faults
         /\ pc \in {"ScheduledRun", "ScheduledWait"} =>
               /\ pc' \in {"LoopTop", "CrashBackoff"}
               /\ (faults' = faults) =>
                     /\ pc' = "LoopTop"
                     /\ ~lastResult' => logTail'[Len(logTail')] = RetryLine]_vars

C13_Witness ==
    /\ pc = "LoopTop"
    /\ attempts = 2
    /\ lastOutcome = "UnexpectedError"
    /\ faults = 0
    /\ ~interrupted
    /\ logTail # <<>>
    /\ logTail[Len(logTail)] = RetryLine

(* C14 as stated: when a scheduled attempt starts right after another       *)
(* scheduled attempt with no loop fault in between, the time since the      *)
(* start of that one is backup_interval_hours * 3600 seconds.               *)
C14_StartToStartIsInterval ==
    (pc = "ScheduledRun" /\ attempts >= 2 /\ faultRun = 0) =>
        sinceStart = backup_interval_hours * 3600

(* C14 as amended: in the same situation the time since the END of the      *)
(* previous attempt is backup_interval_hours * 3600 seconds whatever its    *)
(* outcome and duration, and the time since its start is that plus the      *)
(* time the previous attempt ran.                                           *)
C14_EndToStartIsInterval ==
    \A o \in Outcomes :
       (pc = "ScheduledRun" /\ attempts >= 2 /\ faultRun = 0 /\ lastOutcome = o) =>
           /\ sinceEnd = backup_interval_hours * 3600
           /\ sinceStart = backup_interval_hours * 3600 + lastDuration

C14_Witness ==
    /\ pc = "ScheduledRun"
    /\ attempts = 2
    /\ faultRun = 0
    /\ backup_interval_hours = 1
    /\ lastDuration = 299
    /\ sinceEnd = 3600
    /\ sinceStart = 3899

(* the messages that run_backup logs, lines 30-52 *)
RunBackupMessages ==
    {"Starting scheduled backup...", "Backup completed successfully", "Backup output",
     "Backup failed with return code", "Backup error",
     "Backup timed out after 5 minutes", "Unexpected error during backup"}
(* the lines of the last step that run_backup wrote *)
OwnLines(lines) == SelectSeq(lines, LAMBDA l : l.msg \in RunBackupMessages)
Logged(lines, level, msg) ==
    \E i \in 1..Len(lines) : lines[i].level = level /\ lines[i].msg = msg
LoggedAt(lines, level) == \E i \in 1..Len(lines) : lines[i].level = level
LoggedMsg(lines, msg) == \E i \in 1..Len(lines) : lines[i].msg = msg

(* C15: in the step in which run_backup returns it has logged the outcome:  *)
(* Success has the success line and the output line at INFO and no line of  *)
(* run_backup at ERROR; Failure, TimedOut and UnexpectedError have their    *)
(* own line at ERROR (Failure also the stderr line) and no success line.    *)
C15_LogLevelMatchesOutcome ==
    [][attempts' = attempts + 1 =>
         LET own == OwnLines(logTail')
         IN /\ own # <<>>
            /\ lastOutcome' = "Success" =>
                  /\ Logged(own, "INFO", "Backup completed successfully")
                  /\ Logged(own, "INFO", "Backup output")
                  /\ ~LoggedAt(own, "ERROR")
            /\ lastOutcome' # "Success" =>
                  /\ LoggedAt(own, "ERROR")
                  /\ ~LoggedMsg(own, "Backup completed successfully")
                  /\ ~LoggedMsg(own, "Backup output")
            /\ lastOutcome' = "Failure" =>
                  /\ Logged(own, "ERROR", "Backup failed with return code")
                  /\ Logged(own, "ERROR", "Backup error")
            /\ lastOutcome' = "TimedOut" =>
                  Logged(own, "ERROR", "Backup timed out after 5 minutes")
            /\ lastOutcome' = "UnexpectedError" =>
                  Logged(own, "ERROR", "Unexpected error during backup")]_vars

C15_Witness ==
    /\ attempts = 1
    /\ lastOutcome = "Success"
    /\ pc = "LoopTop"
    /\ logTail = <<[level |-> "INFO", msg |-> "Backup completed successfully"],
                   [level |-> "INFO", msg |-> "Backup output"]>>

(* C16: the sleep of the handler leads back to the top of the loop without  *)
(* an attempt; a scheduled attempt is reached only from an interval sleep   *)
(* that ran its full backup_interval_hours * 3600 seconds without a fault,  *)
(* and is started only from there; so after a loop fault the next attempt   *)
(* starts no sooner than the backoff plus one full interval.                *)
C16_AttemptOnlyAfterFullSleep ==
    /\ [][(pc = "CrashBackoff" /\ pc' # pc /\ ~interrupted') =>
             /\ pc' = "LoopTop"
             /\ attempts' = attempts
             /\ executors' = 0]_vars
    /\ [][(pc' = "ScheduledRun" /\ pc # "ScheduledRun") =>
             /\ pc = "Sleeping"
             /\ sinceEnd' = sinceEnd + backup_interval_hours * 3600
             /\ sleepsCompleted' = sleepsCompleted + 1
             /\ faults' = faults]_vars
    /\ [][(pc' = "ScheduledWait" /\ pc # "ScheduledWait") => pc = "ScheduledRun"]_vars
    /\ [][(pc = "LoopTop" /\ pc' # pc /\ ~interrupted') =>
             pc' \in {"Sleeping", "CrashBackoff"}]_vars
    /\ [](pc \in {"ScheduledRun", "ScheduledWait"} =>
             /\ sinceEnd >= backup_interval_hours * 3600
             /\ faultRun >= 1 => sinceEnd >= backup_interval_hours * 3600 + 60)

C16_Witness ==
    /\ pc = "ScheduledRun"
    /\ faultRun = 1
    /\ backoffs = 1
    /\ attempts = 1
    /\ backup_interval_hours = 1
    /\ sinceEnd = 3660

(* C17: the interval is fixed once start-up is over and every interval      *)
(* sleep lasts backup_interval_hours * 3600 seconds whatever happened       *)
(* before; the sleep after the k-th fault in a row lasts 60 seconds for     *)
(* every k; and however many attempts failed, the next one is started.      *)
C17_NoStateAcrossIterations ==
    /\ [][pc \notin StartupPcs =>
             UNCHANGED <<backup_interval_hours, backup_interval_seconds>>]_vars
    /\ [](backup_interval_seconds = backup_interval_hours * 3600)
    /\ [][(pc = "Sleeping" /\ pc' = "ScheduledRun") =>
             /\ sinceEnd' - sinceEnd = backup_interval_hours * 3600
             /\ sinceStart' - sinceStart = backup_interval_hours * 3600]_vars
    /\ [][\A k \in 1..(MaxFaults + 1) :
             (pc = "CrashBackoff" /\ faultRun = k /\ pc' = "LoopTop") =>
                 /\ sinceEnd' - sinceEnd = 60
                 /\ sinceStart' - sinceStart = 60]_vars
    /\ [](pc = "CrashBackoff" => faultRun \in 1..(MaxFaults + 1))
    /\ []((pc = "ScheduledRun" /\ attempts < MaxAttempts) => ENABLED StartAttempt)
    /\ []((pc = "LoopTop" /\ backup_interval_seconds >= 0) => ENABLED BeginSleep)

C17_Witness ==
    /\ pc = "LoopTop"
    /\ faultRun = 2
    /\ attempts = 1
    /\ lastOutcome = "Failure"
    /\ sinceEnd = 120
    /\ sinceStart = 125

RunningPcs == LoopPcs \cup {"InitialRun", "InitialWait"}

(* C18: with a positive interval and the single thread kept running, from   *)
(* every running state with fewer than MaxAttempts attempts executed        *)
(* another attempt is executed unless an interrupt arrives; the top of the  *)
(* loop and the handler's sleep lead to the interval sleep, the interval    *)
(* sleep leads to the next attempt, and no step other than an interrupt     *)
(* leaves the loop.                                                         *)
C18_LoopKeepsGoing ==
    /\ \A n \in 0..(MaxAttempts - 1) :
          (pc \in RunningPcs /\ backup_interval_seconds > 0 /\ attempts = n)
             ~> (attempts > n \/ interrupted)
    /\ (pc \in {"LoopTop", "CrashBackoff"} /\ backup_interval_seconds > 0)
          ~> (pc = "Sleeping" \/ interrupted)
    /\ (pc = "Sleeping") ~> (pc = "ScheduledRun" \/ interrupted)
    /\ [][(pc \in LoopPcs /\ ~interrupted') => pc' \in LoopPcs]_vars

C18_Witness ==
    /\ pc = "ScheduledWait"
    /\ attempts = 2
    /\ faults = 2
    /\ backup_interval_seconds = 3600
    /\ ~interrupted

(* C19: the process is never ended by the log directory being absent, and   *)
(* nothing is logged while the directory does not exist: wherever the       *)
(* process is past the creation step or has logged a line, the directory    *)
(* exists.                                                                  *)
C19_LogDirEnsuredBeforeLogging ==
    /\ pc = "Terminated" => termCause # "log_dir"
    /\ logTail # <<>> => logDirExists
    /\ pc \in RunningPcs => logDirExists

(* a required variable is not set or is set to the empty string *)
RequiredEmptyOrUnset ==
    \E n \in RequiredNames : ~env[n].present \/ env[n].value = <<>>

(* C20: with a required variable unset or empty no attempt is executed or   *)
(* started and the process never gets past the check; when it ends without  *)
(* an interrupt it ends with exit code 1, and, the log file being openable, *)
(* at the check with the missing-variables error logged, whatever           *)
(* BACKUP_INTERVAL_HOURS is: the interval is never parsed.                  *)
C20_EmptyIsMissingAndCheckedFirst ==
    RequiredEmptyOrUnset =>
        /\ attempts = 0
        /\ executors = 0
        /\ pc \in {"Import", "CheckEnv", "Terminated"}
        /\ backup_interval_hours = 0
        /\ termCause # "bad_interval"
        /\ (pc = "Terminated" /\ ~interrupted) =>
              /\ exitCode = 1
              /\ termCause \in {"missing_env", "log_dir"}
              /\ termCause = "missing_env" =>
                    /\ Len(logTail) = 2
                    /\ logTail[2].level = "ERROR"
                    /\ logTail[2].msg = "Missing required environment variables"

C20_Witness ==
    /\ env["GOOGLE_CLOUD_PROJECT"] = Val(<<>>)
    /\ env["GOOGLE_CLOUD_STORAGE_BUCKET"] = Val(<<"p">>)
    /\ env["BACKUP_INTERVAL_HOURS"] = Val(<<"a">>)
    /\ pc = "Terminated"
    /\ termCause = "missing_env"
    /\ exitCode = 1
    /\ attempts = 0

====
